---- MODULE Spec2Model ----
(***************************************************************************)
(* Storage consistency engine of cloudmodular: the data managers           *)
(* (apps/storage/utils/managers.py) sequencing the metadata store          *)
(* (apps/storage/utils/queries/data_db_query.py) and the physical store.   *)
(*                                                                         *)
(* Strings are sequences of one-character strings, so that the string      *)
(* operations of the code (concatenation, startswith/LIKE, replace,        *)
(* split) are computed as the code computes them.                          *)
(***************************************************************************)
EXTENDS Integers, Sequences, FiniteSets, TLC

\* ------------------------------------------------------------------ bounds
\* Number of metadata rows ever inserted (ids are autoincrement).
MaxId == 2
\* Largest byte length of an uploaded file / largest stored size value.
MaxSize == 1
\* the configured total capacity and the largest storage size requested for a
\* new user, in GB
Capacity == 8
MaxRequest == 10

\* ------------------------------------------------------------ input sets
Workers == {1, 2}
SeqWorker == CHOOSE w \in Workers : \A v \in Workers : w <= v

\* user table: user 1 is the admin, user 2 a client
Users == {1, 2}
Admins == {1}
NoOperator == 0
\* an id no row of the user table has
NoSuchUser == 3
\* user ids a request may name
UserIds == Users \cup {NoSuchUser}

Names == {<<"a">>, <<"b">>}
\* names a caller can also submit: none, a path, the parent directory
OddNames == {<<>>, <<"a", "/", "b">>, <<".", ".">>}
Slash == <<"/">>
Sizes == 1..MaxSize
StoredSizes == 0..MaxSize

\* (operator email resolved to a user id or to nobody, token issue kind)
Tokens ==
  { [email |-> 1, issue |-> "login"],
    [email |-> 1, issue |-> "other"],
    [email |-> 2, issue |-> "login"],
    [email |-> 2, issue |-> "other"],
    [email |-> NoOperator, issue |-> "login"] }

\* What the requests of a run are drawn from, and whether the workers serve
\* them in parallel: any operator on any user's tree, one request at a time;
\* the client on its own tree, one request at a time; the
\* client on its own tree, in parallel; the client on its own tree with any
\* name, one request at a time.
\* last_id caps the autoincrement counter.
AnyRequest ==
  [parallel |-> FALSE, tokens |-> Tokens, user_ids |-> UserIds, names |-> Names,
   last_id |-> MaxId, undo_faults |-> FALSE]
OwnTree ==
  [parallel |-> FALSE,
   tokens |-> {[email |-> 2, issue |-> "login"]},
   user_ids |-> {2}, names |-> Names, last_id |-> MaxId + 2,
   undo_faults |-> FALSE]
Racing ==
  [parallel |-> TRUE, tokens |-> {[email |-> 2, issue |-> "login"]},
   user_ids |-> {2}, names |-> Names, last_id |-> MaxId, undo_faults |-> FALSE]
AnyName ==
  [parallel |-> FALSE,
   tokens |-> {[email |-> 2, issue |-> "login"]},
   user_ids |-> {2}, names |-> Names \cup OddNames, last_id |-> MaxId,
   undo_faults |-> FALSE]
\* two requests of the client on its own tree, in parallel, where the store
\* call of an except branch may raise as well
FailingUndo ==
  [parallel |-> TRUE,
   tokens |-> {[email |-> 2, issue |-> "login"]},
   user_ids |-> {2}, names |-> Names, last_id |-> MaxId, undo_faults |-> TRUE]

\* two requests of the client on a tree four levels deep, in parallel
OwnDeepTree ==
  [parallel |-> TRUE,
   tokens |-> {[email |-> 2, issue |-> "login"]},
   user_ids |-> {2}, names |-> Names, last_id |-> MaxId + 3,
   undo_faults |-> FALSE]
\* two requests of the client, in parallel, on a tree with a directory whose
\* name is the LIKE wildcard "_"
WildNames == {<<"a">>, <<"_">>}
OwnWildTree ==
  [parallel |-> TRUE,
   tokens |-> {[email |-> 2, issue |-> "login"]},
   user_ids |-> {2}, names |-> WildNames, last_id |-> MaxId + 2,
   undo_faults |-> FALSE]
\* provisioning requests of any operator, in parallel
Provisioning ==
  [parallel |-> TRUE, tokens |-> Tokens, user_ids |-> {}, names |-> {},
   last_id |-> 0, undo_faults |-> FALSE]
StorageSizes == 0..MaxRequest

\* ------------------------------------------------------- string helpers
RECURSIVE Like(_, _)
\* SQL LIKE: '%' matches any run of characters, '_' any one character.
Like(s, pat) ==
  IF pat = <<>> THEN s = <<>>
  ELSE IF Head(pat) = "%"
       THEN \E k \in 0..Len(s) : Like(SubSeq(s, k + 1, Len(s)), Tail(pat))
       ELSE /\ s # <<>>
            /\ (Head(pat) = "_" \/ Head(pat) = Head(s))
            /\ Like(Tail(s), Tail(pat))

\* Column.startswith(x): "column LIKE x || '%'", x not escaped.
StartsWith(s, x) == Like(s, x \o <<"%">>)

\* literal prefix test (str.startswith / filesystem containment)
HasPrefix(s, x) == Len(x) <= Len(s) /\ SubSeq(s, 1, Len(x)) = x

RECURSIVE Replace(_, _, _)
\* SQL REPLACE(s, old, new): every non-overlapping occurrence, left to right.
Replace(s, old, new) ==
  IF old = <<>> \/ Len(s) < Len(old) THEN s
  ELSE IF SubSeq(s, 1, Len(old)) = old
       THEN new \o Replace(SubSeq(s, Len(old) + 1, Len(s)), old, new)
       ELSE <<Head(s)>> \o Replace(Tail(s), old, new)

RECURSIVE LastSegment(_)
\* filename.split('/')[-1]
LastSegment(s) ==
  IF \E i \in 1..Len(s) : s[i] = "/"
  THEN LastSegment(Tail(s))
  ELSE s

\* f'{root}{name}/' of a directory row
DirPath(root, name) == root \o name \o Slash

\* ------------------------------------------------------- metadata store
None == [id |-> 0, user_id |-> 0, root |-> <<>>, name |-> <<>>,
         is_dir |-> FALSE, size |-> 0]

Row(id, user_id, root, name, is_dir, size) ==
  [id |-> id, user_id |-> user_id, root |-> root, name |-> name,
   is_dir |-> is_dir, size |-> size]

\* Query.scalar(): None on no row, the row on one, MultipleResultsFound else.
Scalar(rows) ==
  IF rows = {} THEN [exc |-> FALSE, data |-> None]
  ELSE IF Cardinality(rows) = 1
       THEN [exc |-> FALSE, data |-> CHOOSE r \in rows : TRUE]
       ELSE [exc |-> TRUE, data |-> None]

\* "if user_id: query.filter(DataInfo.user_id == user_id)": the filtered
\* query is discarded, the unfiltered one is executed.
ReaderUserFilter(r, user_id) == TRUE

\* DataDBQueryReader.__call__; is_dir is "unset" (None), "dir" (True) or
\* "file" (False). "if is_dir:" is taken for True only.
DataDBQueryReader(d, user_id, is_dir, data_id, full_root) ==
  LET found ==
        IF data_id # 0
        THEN Scalar({r \in d : r.id = data_id /\ ReaderUserFilter(r, user_id)})
        ELSE IF full_root # <<>>
             THEN Scalar({r \in d : /\ r.root = full_root[1]
                                    /\ r.name = full_root[2]
                                    /\ ReaderUserFilter(r, user_id)})
             ELSE [exc |-> FALSE, data |-> None]
  IN IF found.exc THEN found
     ELSE IF is_dir = "dir" /\ found.data # None /\ ~found.data.is_dir
          THEN [exc |-> FALSE, data |-> None]
          ELSE found

\* DataDBQueryCreator: the SELECT of lines 33-39 (an exception either way
\* when a row already matches).
CreatorCollides(d, user_id, root, name, is_dir) ==
  \E r \in d : /\ r.name = name /\ r.root = root
               /\ r.user_id = user_id /\ r.is_dir = is_dir

\* DataDBQueryCreator: session.add + commit
CreatorInsert(d, id, user_id, root, name, is_dir, size) ==
  d \cup {Row(id, user_id, root, name, is_dir, size)}

\* rows removed by the descendant delete of DataDBQueryDestroyer
DestroyerDescendantsNone(d, data) == {}
DestroyerDescendants(d, data) ==
  {r \in d : /\ r.user_id = data.user_id
             /\ StartsWith(r.root, DirPath(data.root, data.name))}

\* DataDBQueryDestroyer.__call__ on a row that exists
DataDBQueryDestroyer(d, data) ==
  (d \ (IF data.is_dir THEN DestroyerDescendants(d, data) ELSE {}))
     \ {r \in d : r.id = data.id}

\* tables tag and datatag: tag holds the ids of the tag rows, datatag the
\* links [id, datainfo_id, tag_id]
NoTags == [tag |-> {}, datatag |-> {}]

\* the tag rows DataDBQueryDestroyer deletes for the descendants: the join of
\* the descendant rows with datatag on datainfo_id and with tag on
\* Tag.id == DataTag.id
DestroyerDescendantTags(t, d, data) ==
  {j.id : j \in {j \in t.datatag :
                   \E r \in DestroyerDescendants(d, data) : j.datainfo_id = r.id}}
    \cap t.tag

\* the tag rows it deletes for the row itself: the join of datatag with tag on
\* Tag.id == DataTag.tag_id
DestroyerOwnTags(t, data) ==
  {j.tag_id : j \in {j \in t.datatag : j.datainfo_id = data.id}} \cap t.tag

\* DataDBQueryDestroyer.__call__ on the tag tables. It deletes tag rows only;
\* with cascade the database removes the datatag rows whose row or tag went
\* away, without it they stay.
DestroyerTags(t, d, data, cascade) ==
  LET gone == {r.id : r \in d \ DataDBQueryDestroyer(d, data)}
      left == t.tag \ ((IF data.is_dir THEN DestroyerDescendantTags(t, d, data)
                                       ELSE {})
                         \cup DestroyerOwnTags(t, data))
  IN [tag |-> left,
      datatag |-> IF cascade
                  THEN {j \in t.datatag : j.datainfo_id \notin gone
                                           /\ j.tag_id \in left}
                  ELSE t.datatag]

\* descendant rewrite of DataDBQueryUpdator
UpdatorCascadeFirstOnly(d, data, new_name) ==
  LET dst == DirPath(data.root, data.name)
      hit == {r \in d : r.user_id = data.user_id /\ StartsWith(r.root, dst)}
      one == IF hit = {} THEN {}
             ELSE {CHOOSE r \in hit : \A q \in hit : r.id <= q.id}
  IN {IF r \in one
      THEN [r EXCEPT !.root = Replace(r.root, dst, DirPath(data.root, new_name))]
      ELSE r : r \in d}
UpdatorCascade(d, data, new_name) ==
  LET dst_root == DirPath(data.root, data.name)
      src_root == DirPath(data.root, new_name)
  IN {IF r.user_id = data.user_id /\ StartsWith(r.root, dst_root)
      THEN [r EXCEPT !.root = Replace(r.root, dst_root, src_root)]
      ELSE r : r \in d}

\* DataDBQueryUpdator.__call__ on a row that exists
DataDBQueryUpdator(d, data, new_name) ==
  LET cascaded == IF data.is_dir THEN UpdatorCascade(d, data, new_name) ELSE d
  IN {IF r.id = data.id THEN [r EXCEPT !.name = new_name] ELSE r
        : r \in cascaded}

\* DataDBQuery.update_file_automatic on a row that exists
update_file_automatic(d, data_id, size) ==
  {IF r.id = data_id THEN [r EXCEPT !.size = size] ELSE r : r \in d}

\* DataDBQuery.sync_file_size on a row that exists
sync_file_size_keep(d, data_id, real_size) == d
sync_file_size(d, data_id, real_size) ==
  {IF r.id = data_id /\ r.size # real_size
   THEN [r EXCEPT !.size = real_size] ELSE r : r \in d}

RowById(d, id) == Scalar({r \in d : r.id = id}).data

\* ------------------------------------------------------- physical store
\* an object of the filesystem below {storage}/storage/{u}/root
Obj(u, p, is_dir, size) == [u |-> u, p |-> p, is_dir |-> is_dir, size |-> size]

\* f'{SERVER["storage"]}/storage/{user_id}/root{root}{name}'
RawRoot(user_id, root, name) == [u |-> user_id, p |-> root \o name]

At(f, pp) == {o \in f : o.u = pp.u /\ o.p = pp.p}
Below(f, pp) == {o \in f : o.u = pp.u /\ HasPrefix(o.p, pp.p \o Slash)}

\* DataStorageQuery().read(root, is_dir): presence of an object of that kind
StorageRead(f, pp, is_dir) == \E o \in At(f, pp) : o.is_dir = is_dir

\* DataStorageQuery().destroy(root): recursive, absent path tolerated
StorageDestroy(f, pp) == f \ (At(f, pp) \cup Below(f, pp))

\* DataStorageQuery().create(root, is_dir, file)
StorageCreate(f, pp, is_dir, size) ==
  IF is_dir
  THEN IF StorageRead(f, pp, TRUE) THEN f
       ELSE StorageDestroy(f, pp) \cup {Obj(pp.u, pp.p, TRUE, 0)}
  ELSE StorageDestroy(f, pp) \cup {Obj(pp.u, pp.p, FALSE, size)}

\* DataStorageQuery().update(root, new_name): the leaf and all below it move
StorageUpdate(f, user_id, root, prev_name, new_name) ==
  LET src == RawRoot(user_id, root, prev_name)
      dst == RawRoot(user_id, root, new_name)
      moved == At(f, src) \cup Below(f, src)
  IN (f \ moved) \cup
     {[o EXCEPT !.p = dst.p \o SubSeq(o.p, Len(src.p) + 1, Len(o.p))]
        : o \in moved}

\* os.path.getsize(full_root)
GetSize(f, pp) == (CHOOSE o \in At(f, pp) : TRUE).size

\* len(os.listdir(raw_root)): entries directly inside the directory
ListDir(f, pp) ==
  {o \in Below(f, pp) :
     \A i \in (Len(pp.p) + 2)..Len(o.p) : o.p[i] # "/"}

\* DataInfoCreate / DataInfoUpdate name validation
Forbidden == {"/", "\\", ":", "*", "\"", "'", "<", ">", "|"}
ValidName(name) == name # <<>> /\ \A i \in 1..Len(name) : name[i] \notin Forbidden

\* ------------------------------------------------------- access policy
\* the composite without LoginedOnly
PermittedAnyIssue(tok, user_id) ==
  /\ tok.email \in Users
  /\ (tok.email \in Admins \/ (tok.email \notin Admins /\ tok.email = user_id))
\* the composite without OnlyMine
PermittedAnyOwner(tok, user_id) ==
  /\ tok.email \in Users
  /\ tok.issue = "login"
\* LoginedOnly(issue) & (AdminOnly | (~AdminOnly & OnlyMine))
Permitted(tok, user_id) ==
  /\ tok.email \in Users
  /\ tok.issue = "login"
  /\ (tok.email \in Admins \/ (tok.email \notin Admins /\ tok.email = user_id))

\* ---------------------------------------------------------------- state
VARIABLES
  db,       \* rows of table datainfo
  next_id,  \* next autoincrement id
  fs,       \* objects of the physical store
  tags,     \* rows of tables tag (ids) and datatag (links of rows to tags)
  wk        \* per worker: the request it serves, its locals and position

vars == <<db, next_id, fs, tags, wk>>

Idle == [pc |-> "idle", op |-> "none", tok |-> [email |-> NoOperator, issue |-> "login"],
         uid |-> 0, did |-> 0, name |-> <<>>, is_dir |-> FALSE, size |-> 0,
         dir_root |-> <<>>, already |-> 0, data |-> None,
         res |-> "none", out |-> 0,
         \* where the last exception was raised: "none", "storage", "db", or
         \* "rollback" (in the except branch that undoes the physical step)
         exc |-> "none",
         \* the stores as the request found them
         db0 |-> {}, fs0 |-> {}, tags0 |-> NoTags]

\* The tree the storage tests build in their fixture for the client:
\* mydir/subdir/hi.txt, with mydir = a, subdir = b, hi.txt = a.
FixtureOwner == 2
FixtureTree ==
  LET mydir == DirPath(Slash, <<"a">>)
      subdir == DirPath(mydir, <<"b">>)
      d1 == CreatorInsert({}, 1, FixtureOwner, Slash, <<"a">>, TRUE, 0)
      d2 == CreatorInsert(d1, 2, FixtureOwner, mydir, <<"b">>, TRUE, 0)
      d3 == CreatorInsert(d2, 3, FixtureOwner, subdir, <<"a">>, FALSE, 1)
      f1 == StorageCreate({}, RawRoot(FixtureOwner, Slash, <<"a">>), TRUE, 0)
      f2 == StorageCreate(f1, RawRoot(FixtureOwner, mydir, <<"b">>), TRUE, 0)
      f3 == StorageCreate(f2, RawRoot(FixtureOwner, subdir, <<"a">>), FALSE, 1)
  IN [db |-> d3, fs |-> f3, next_id |-> 4]
EmptyStores == [db |-> {}, fs |-> {}, next_id |-> 1]

InitFrom(seeds) ==
  /\ \E s \in seeds : db = s.db /\ fs = s.fs /\ next_id = s.next_id
  /\ tags = NoTags
  /\ wk = [w \in Workers |-> Idle]

\* after migrate_database / init_storage
Init == InitFrom({EmptyStores})

AllIdle == \A w \in Workers : wk[w].pc = "idle"

\* a request may start on worker w; without concurrency one request at a time
MayStart(w, sc) ==
  /\ wk[w].pc = "idle"
  /\ (~sc.parallel => AllIdle /\ w = SeqWorker)

Go(w, rec) == wk' = [wk EXCEPT ![w] = rec]
Return(w, res) == wk' = [wk EXCEPT ![w] = [wk[w] EXCEPT !.pc = "done", !.res = res]]
ReturnOut(w, res, data, out) ==
  wk' = [wk EXCEPT ![w] =
           [wk[w] EXCEPT !.pc = "done", !.res = res, !.data = data, !.out = out]]

\* ids a request may name: 0, every id issued so far, and one never issued
DataIds == 0..next_id

\* ------------------------------------------------------------ create
\* DataManager.create up to the first data-store access of the CRUD manager
DataManager_create(w, sc) ==
  /\ MayStart(w, sc)
  /\ \E tok \in sc.tokens, uid \in sc.user_ids, did \in DataIds, name \in sc.names,
        is_dir \in BOOLEAN, size \in Sizes :
       LET req == [Idle EXCEPT !.op = "create", !.tok = tok, !.uid = uid,
                               !.db0 = db, !.fs0 = fs, !.tags0 = tags,
                               !.is_dir = is_dir,
                               !.did = IF Permitted(tok, uid) /\ uid \in Users
                                       THEN did ELSE 0,
                               !.name = IF Permitted(tok, uid) /\ uid \in Users
                                        THEN (IF is_dir THEN name
                                              ELSE LastSegment(name))
                                        ELSE <<>>,
                               !.size = IF ~is_dir /\ Permitted(tok, uid)
                                           /\ uid \in Users
                                        THEN size ELSE 0]
       IN IF ~Permitted(tok, uid)
          THEN Go(w, [req EXCEPT !.pc = "done", !.res = "PermissionDenied"])
          ELSE IF uid \notin Users
          THEN Go(w, [req EXCEPT !.pc = "done", !.res = "UserNotFound"])
          ELSE IF did # 0
          THEN Go(w, [req EXCEPT !.pc = "c_parent"])
          ELSE Go(w, [req EXCEPT !.pc = "c_lookup", !.dir_root = Slash])
  /\ UNCHANGED <<db, next_id, tags, fs>>

\* the parent looked up without is_dir=True
Create_ReadParent_AnyKind(w) ==
  /\ wk[w].pc = "c_parent"
  /\ LET q == DataDBQueryReader(db, wk[w].uid, "unset", wk[w].did, <<>>)
     IN IF q.exc THEN Return(w, "Error")
        ELSE IF q.data = None THEN Return(w, "NotFound")
        ELSE Go(w, [wk[w] EXCEPT !.pc = "c_lookup",
                      !.dir_root = DirPath(q.data.root, q.data.name)])
  /\ UNCHANGED <<db, next_id, tags, fs>>

\* create: DataDBQuery().read(user_id, data_id=root_id, is_dir=True)
Create_ReadParent(w) ==
  /\ wk[w].pc = "c_parent"
  /\ LET q == DataDBQueryReader(db, wk[w].uid, "dir", wk[w].did, <<>>)
     IN IF q.exc THEN Return(w, "Error")
        ELSE IF q.data = None THEN Return(w, "NotFound")
        ELSE Go(w, [wk[w] EXCEPT !.pc = "c_lookup",
                      !.dir_root = DirPath(q.data.root, q.data.name)])
  /\ UNCHANGED <<db, next_id, tags, fs>>

\* create: DataDBQuery().read(user_id, full_root=(dir_root, name))
Create_ReadSlot(w) ==
  /\ wk[w].pc = "c_lookup"
  /\ LET q == DataDBQueryReader(db, wk[w].uid, "unset", 0,
                                <<wk[w].dir_root, wk[w].name>>)
         db_already_id == q.data.id
     IN IF q.exc THEN Return(w, "Error")
        ELSE IF db_already_id # 0 /\ (wk[w].is_dir \/ q.data.is_dir)
        THEN Return(w, "AlreadyExists")
        ELSE Go(w, [wk[w] EXCEPT !.pc = "c_clean", !.already = db_already_id])
  /\ UNCHANGED <<db, next_id, tags, fs>>

\* create: force-delete of a physical object at the target, then the
\* DataInfoCreate validation
Create_CleanStorage(w) ==
  /\ wk[w].pc = "c_clean"
  /\ LET root == RawRoot(wk[w].uid, wk[w].dir_root, wk[w].name)
     IN fs' = IF StorageRead(fs, root, TRUE) \/ StorageRead(fs, root, FALSE)
              THEN StorageDestroy(fs, root) ELSE fs
  /\ IF ValidName(wk[w].name)
     THEN Go(w, [wk[w] EXCEPT !.pc = "c_write"])
     ELSE Return(w, "InvalidName")
  /\ UNCHANGED <<db, next_id, tags>>

\* create: DataStorageQuery().create(...); the write succeeds or raises
Create_WriteStorage(w) ==
  /\ wk[w].pc = "c_write"
  /\ \/ /\ fs' = StorageCreate(fs, RawRoot(wk[w].uid, wk[w].dir_root, wk[w].name),
                               wk[w].is_dir, wk[w].size)
        /\ Go(w, [wk[w] EXCEPT !.pc = "c_commit"])
     \/ /\ fs' = fs
        /\ Go(w, [wk[w] EXCEPT !.pc = "done", !.res = "StoreFailure",
                              !.exc = "storage"])
  /\ UNCHANGED <<db, next_id, tags>>

\* create: update_file_automatic of the row found, or the SELECT of
\* DataDBQueryCreator
Create_Commit(w) ==
  /\ wk[w].pc = "c_commit"
  /\ IF wk[w].already # 0
     THEN IF RowById(db, wk[w].already) = None
          THEN /\ db' = db
               /\ Go(w, [wk[w] EXCEPT !.pc = "c_rollback", !.res = "NotFound",
                                 !.exc = "db"])
          ELSE \/ /\ db' = update_file_automatic(db, wk[w].already, wk[w].size)
                  /\ ReturnOut(w, "Ok", RowById(db', wk[w].already), wk[w].already)
               \/ /\ db' = db
                  /\ Go(w, [wk[w] EXCEPT !.pc = "c_rollback", !.res = "StoreFailure",
                                 !.exc = "db"])
     ELSE /\ db' = db
          /\ IF CreatorCollides(db, wk[w].uid, wk[w].dir_root, wk[w].name,
                                wk[w].is_dir)
             THEN Go(w, [wk[w] EXCEPT !.pc = "c_rollback", !.res = "AlreadyExists",
                                 !.exc = "db"])
             ELSE Go(w, [wk[w] EXCEPT !.pc = "c_insert"])
  /\ UNCHANGED <<next_id, tags, fs>>

\* create: session.add + commit of DataDBQueryCreator; the commit may raise
Create_Insert(w, sc) ==
  /\ wk[w].pc = "c_insert"
  /\ \/ /\ next_id <= sc.last_id
        /\ db' = CreatorInsert(db, next_id, wk[w].uid, wk[w].dir_root,
                               wk[w].name, wk[w].is_dir, wk[w].size)
        /\ next_id' = next_id + 1
        /\ ReturnOut(w, "Ok", RowById(db', next_id), next_id)
     \/ /\ UNCHANGED <<db, next_id>>
        /\ Go(w, [wk[w] EXCEPT !.pc = "c_rollback", !.res = "StoreFailure",
                                 !.exc = "db"])
  /\ UNCHANGED <<fs, tags>>

\* the except branch re-raising without the destroy
Create_Rollback_NoDestroy(w, sc) ==
  /\ wk[w].pc = "c_rollback"
  /\ Return(w, wk[w].res)
  /\ UNCHANGED <<db, next_id, tags, fs>>

\* the except branch returning normally when its destroy raises
Create_Rollback_Swallow(w, sc) ==
  /\ wk[w].pc = "c_rollback"
  /\ \/ /\ fs' = StorageDestroy(fs, RawRoot(wk[w].uid, wk[w].dir_root, wk[w].name))
        /\ Return(w, wk[w].res)
     \/ /\ sc.undo_faults
        /\ fs' = fs
        /\ Go(w, [wk[w] EXCEPT !.pc = "done", !.res = "Ok", !.exc = "rollback"])
  /\ UNCHANGED <<db, next_id, tags>>

\* create: the except branch, DataStorageQuery().destroy(root), then re-raise;
\* when the destroy itself raises, its exception leaves the branch
Create_Rollback(w, sc) ==
  /\ wk[w].pc = "c_rollback"
  /\ \/ /\ fs' = StorageDestroy(fs, RawRoot(wk[w].uid, wk[w].dir_root, wk[w].name))
        /\ Return(w, wk[w].res)
     \/ /\ sc.undo_faults
        /\ fs' = fs
        /\ Go(w, [wk[w] EXCEPT !.pc = "done", !.res = "StoreFailure",
                              !.exc = "rollback"])
  /\ UNCHANGED <<db, next_id, tags>>

\* -------------------------------------------------------------- read
\* DataManager.read up to its first data-store access
DataManager_read(w, sc) ==
  /\ MayStart(w, sc)
  /\ \E tok \in sc.tokens, uid \in sc.user_ids, did \in DataIds :
       LET ok == Permitted(tok, uid) /\ uid \in Users
           req == [Idle EXCEPT !.op = "read", !.tok = tok, !.uid = uid,
                               !.db0 = db, !.fs0 = fs, !.tags0 = tags,
                               !.did = IF ok THEN did ELSE 0]
       IN IF ~Permitted(tok, uid)
          THEN Go(w, [req EXCEPT !.pc = "done", !.res = "PermissionDenied"])
          ELSE IF uid \notin Users
          THEN Go(w, [req EXCEPT !.pc = "done", !.res = "UserNotFound"])
          ELSE Go(w, [req EXCEPT !.pc = "r_read"])
  /\ UNCHANGED <<db, next_id, tags, fs>>

\* read: DataDBQuery().read(user_id, data_id)
Read_ReadData(w) ==
  /\ wk[w].pc = "r_read"
  /\ LET q == DataDBQueryReader(db, wk[w].uid, "unset", wk[w].did, <<>>)
     IN IF q.exc THEN Return(w, "Error")
        ELSE IF q.data = None THEN Return(w, "NotFound")
        ELSE Go(w, [wk[w] EXCEPT !.pc = "r_probe", !.data = q.data])
  /\ UNCHANGED <<db, next_id, tags, fs>>

\* the probe made in the operator's tree instead of the tree of user_id
Read_ProbeStorage_OperatorTree(w) ==
  /\ wk[w].pc = "r_probe"
  /\ LET data_info == wk[w].data
         raw_root == RawRoot(wk[w].tok.email, data_info.root, data_info.name)
     IN IF ~StorageRead(fs, raw_root, data_info.is_dir)
        THEN Go(w, [wk[w] EXCEPT !.pc = "r_purge"])
        ELSE IF data_info.is_dir
        THEN Go(w, [wk[w] EXCEPT !.pc = "r_list"])
        ELSE Go(w, [wk[w] EXCEPT !.pc = "r_sync"])
  /\ UNCHANGED <<db, next_id, tags, fs>>

\* read: DataStorageQuery().read(raw_root, is_dir=data_info.is_dir)
Read_ProbeStorage(w) ==
  /\ wk[w].pc = "r_probe"
  /\ LET data_info == wk[w].data
         raw_root == RawRoot(wk[w].uid, data_info.root, data_info.name)
     IN IF ~StorageRead(fs, raw_root, data_info.is_dir)
        THEN Go(w, [wk[w] EXCEPT !.pc = "r_purge"])
        ELSE IF data_info.is_dir
        THEN Go(w, [wk[w] EXCEPT !.pc = "r_list"])
        ELSE Go(w, [wk[w] EXCEPT !.pc = "r_sync"])
  /\ UNCHANGED <<db, next_id, tags, fs>>

\* DataNotFound raised without the destroy
Read_Purge_Hide(w) ==
  /\ wk[w].pc = "r_purge"
  /\ Return(w, "NotFound")
  /\ UNCHANGED <<db, next_id, tags, fs>>

\* read: DataDBQuery().destroy(data_info.id), then DataNotFound
Read_Purge(w) ==
  /\ wk[w].pc = "r_purge"
  /\ LET data == RowById(db, wk[w].data.id)
     IN IF data = None
        THEN UNCHANGED <<db, tags>> /\ Return(w, "Error")
        ELSE /\ db' = DataDBQueryDestroyer(db, data)
             /\ \E cascade \in BOOLEAN :
                  tags' = DestroyerTags(tags, db, data, cascade)
             /\ Return(w, "NotFound")
  /\ UNCHANGED <<next_id, fs>>

\* read of a file: DataDBQuery().sync_file_size(data_id, raw_root)
Read_SyncSize(w) ==
  /\ wk[w].pc = "r_sync"
  /\ LET raw_root == RawRoot(wk[w].uid, wk[w].data.root, wk[w].data.name)
     IN IF RowById(db, wk[w].did) = None
        THEN db' = db /\ Return(w, "NotFound")
        ELSE IF At(fs, raw_root) = {}
        THEN db' = db /\ Return(w, "Error")
        ELSE /\ db' = sync_file_size(db, wk[w].did, GetSize(fs, raw_root))
             /\ ReturnOut(w, "Ok", RowById(db', wk[w].did),
                          RowById(db', wk[w].did).size)
  /\ UNCHANGED <<next_id, tags, fs>>

\* the stored size column reported for a directory
Read_ListDir_Stored(w) ==
  /\ wk[w].pc = "r_list"
  /\ LET raw_root == RawRoot(wk[w].uid, wk[w].data.root, wk[w].data.name)
     IN IF ~StorageRead(fs, raw_root, TRUE)
        THEN Return(w, "Error")
        ELSE ReturnOut(w, "Ok", wk[w].data, wk[w].data.size)
  /\ UNCHANGED <<db, next_id, tags, fs>>

\* read of a directory: size is len(os.listdir(raw_root))
Read_ListDir(w) ==
  /\ wk[w].pc = "r_list"
  /\ LET raw_root == RawRoot(wk[w].uid, wk[w].data.root, wk[w].data.name)
     IN IF ~StorageRead(fs, raw_root, TRUE)
        THEN Return(w, "Error")
        ELSE ReturnOut(w, "Ok", wk[w].data, Cardinality(ListDir(fs, raw_root)))
  /\ UNCHANGED <<db, next_id, tags, fs>>

\* ------------------------------------------------------------ update
\* DataManager.update up to its first data-store access
DataManager_update(w, sc) ==
  /\ MayStart(w, sc)
  /\ \E tok \in sc.tokens, uid \in sc.user_ids, did \in DataIds, name \in sc.names :
       LET ok == Permitted(tok, uid)
           req == [Idle EXCEPT !.op = "update", !.tok = tok, !.uid = uid,
                               !.db0 = db, !.fs0 = fs, !.tags0 = tags,
                               !.did = IF ok THEN did ELSE 0,
                               !.name = IF ok THEN name ELSE <<>>]
       IN IF ~ok
          THEN Go(w, [req EXCEPT !.pc = "done", !.res = "PermissionDenied"])
          ELSE Go(w, [req EXCEPT !.pc = "u_target"])
  /\ UNCHANGED <<db, next_id, tags, fs>>

\* update: DataManager's DataDBQuery().read(user_id, data_id), choosing the
\* file or the directory manager, whose update first reads the user
Update_ReadTarget(w) ==
  /\ wk[w].pc = "u_target"
  /\ LET q == DataDBQueryReader(db, wk[w].uid, "unset", wk[w].did, <<>>)
     IN IF q.exc THEN Return(w, "Error")
        ELSE IF q.data = None THEN Return(w, "NotFound")
        ELSE IF wk[w].uid \notin Users THEN Return(w, "UserNotFound")
        ELSE Go(w, [wk[w] EXCEPT !.pc = "u_read", !.is_dir = q.data.is_dir])
  /\ UNCHANGED <<db, next_id, tags, fs>>

\* update: the manager's DataDBQuery().read (is_dir=False for the file
\* manager, no is_dir for the directory manager), then DataInfoUpdate
Update_ReadData(w) ==
  /\ wk[w].pc = "u_read"
  /\ LET q == DataDBQueryReader(db, wk[w].uid,
                                IF wk[w].is_dir THEN "unset" ELSE "file",
                                wk[w].did, <<>>)
     IN IF q.exc THEN Return(w, "Error")
        ELSE IF q.data = None THEN Return(w, "NotFound")
        ELSE IF ~ValidName(wk[w].name) THEN Return(w, "InvalidName")
        ELSE Go(w, [wk[w] EXCEPT !.pc = "u_phys", !.data = q.data])
  /\ UNCHANGED <<db, next_id, tags, fs>>

\* the rename carried out whether or not the destination is occupied
Update_RenameStorage_Overwrite(w) ==
  /\ wk[w].pc = "u_phys"
  /\ LET data == wk[w].data
         src == RawRoot(wk[w].uid, data.root, data.name)
         dst == RawRoot(wk[w].uid, data.root, wk[w].name)
     IN IF At(fs, src) = {}
        THEN fs' = fs /\ Go(w, [wk[w] EXCEPT !.pc = "u_purge"])
        ELSE /\ fs' = StorageUpdate(StorageDestroy(fs, dst), wk[w].uid,
                                    data.root, data.name, wk[w].name)
             /\ Go(w, [wk[w] EXCEPT !.pc = "u_commit"])
  /\ UNCHANGED <<db, next_id, tags>>

\* update: DataStorageQuery().update(raw_root, new_name)
Update_RenameStorage(w) ==
  /\ wk[w].pc = "u_phys"
  /\ LET data == wk[w].data
         src == RawRoot(wk[w].uid, data.root, data.name)
         dst == RawRoot(wk[w].uid, data.root, wk[w].name)
     IN \/ /\ At(fs, dst) # {}
           /\ fs' = fs
           /\ Return(w, "AlreadyExists")
        \/ /\ At(fs, src) = {}
           /\ fs' = fs
           /\ Go(w, [wk[w] EXCEPT !.pc = "u_purge"])
        \/ /\ At(fs, dst) = {}
           /\ At(fs, src) # {}
           /\ fs' = StorageUpdate(fs, wk[w].uid, data.root, data.name, wk[w].name)
           /\ Go(w, [wk[w] EXCEPT !.pc = "u_commit"])
  /\ UNCHANGED <<db, next_id, tags>>

\* DataNotFound raised without the destroy
Update_Purge_Hide(w) ==
  /\ wk[w].pc = "u_purge"
  /\ Return(w, "NotFound")
  /\ UNCHANGED <<db, next_id, tags, fs>>

\* update: DataDBQuery().destroy(data_id), then DataNotFound
Update_Purge(w) ==
  /\ wk[w].pc = "u_purge"
  /\ LET data == RowById(db, wk[w].did)
     IN IF data = None
        THEN UNCHANGED <<db, tags>> /\ Return(w, "Error")
        ELSE /\ db' = DataDBQueryDestroyer(db, data)
             /\ \E cascade \in BOOLEAN :
                  tags' = DestroyerTags(tags, db, data, cascade)
             /\ Return(w, "NotFound")
  /\ UNCHANGED <<next_id, fs>>

\* update: DataDBQuery().update(data_id, new_name, user_id); the row is
\* looked up by (user_id, id), the commit may raise
Update_Commit(w) ==
  /\ wk[w].pc = "u_commit"
  /\ LET data_info == Scalar({r \in db : r.user_id = wk[w].uid
                                         /\ r.id = wk[w].data.id}).data
     IN IF data_info = None
        THEN /\ db' = db
             /\ Go(w, [wk[w] EXCEPT !.pc = "u_rollback", !.res = "NotFound",
                                 !.exc = "db"])
        ELSE \/ /\ db' = DataDBQueryUpdator(db, data_info, wk[w].name)
                /\ ReturnOut(w, "Ok", RowById(db', data_info.id), data_info.id)
             \/ /\ db' = db
                /\ Go(w, [wk[w] EXCEPT !.pc = "u_rollback", !.res = "StoreFailure",
                                 !.exc = "db"])
  /\ UNCHANGED <<next_id, tags, fs>>

\* the except branch re-raising without the rename back
Update_Rollback_None(w, sc) ==
  /\ wk[w].pc = "u_rollback"
  /\ Return(w, wk[w].res)
  /\ UNCHANGED <<db, next_id, tags, fs>>

\* update: the except branch, DataStorageQuery().update(new, prev_name)
Update_Rollback(w, sc) ==
  /\ wk[w].pc = "u_rollback"
  /\ LET data == wk[w].data
         src == RawRoot(wk[w].uid, data.root, wk[w].name)
         dst == RawRoot(wk[w].uid, data.root, data.name)
     IN \/ /\ At(fs, dst) # {}
           /\ fs' = fs
           /\ Return(w, "Error")
        \/ /\ At(fs, src) = {}
           /\ fs' = fs
           /\ Return(w, wk[w].res)
        \/ /\ At(fs, dst) = {}
           /\ At(fs, src) # {}
           /\ fs' = StorageUpdate(fs, wk[w].uid, data.root, wk[w].name, data.name)
           /\ Return(w, wk[w].res)
        \/ /\ sc.undo_faults
           /\ fs' = fs
           /\ Go(w, [wk[w] EXCEPT !.pc = "done", !.res = "StoreFailure",
                                 !.exc = "rollback"])
  /\ UNCHANGED <<db, next_id, tags>>

\* ----------------------------------------------------------- destroy
\* DataManager.destroy going on to the target lookup without the check
DataManager_destroy_Unchecked(w, sc) ==
  /\ MayStart(w, sc)
  /\ \E tok \in sc.tokens, uid \in sc.user_ids, did \in DataIds :
       Go(w, [Idle EXCEPT !.op = "destroy", !.tok = tok, !.uid = uid,
                          !.db0 = db, !.fs0 = fs, !.tags0 = tags, !.did = did,
                          !.pc = "d_target"])
  /\ UNCHANGED <<db, next_id, tags, fs>>

\* DataManager.destroy up to its first data-store access
DataManager_destroy(w, sc) ==
  /\ MayStart(w, sc)
  /\ \E tok \in sc.tokens, uid \in sc.user_ids, did \in DataIds :
       LET ok == Permitted(tok, uid)
           req == [Idle EXCEPT !.op = "destroy", !.tok = tok, !.uid = uid,
                               !.db0 = db, !.fs0 = fs, !.tags0 = tags,
                               !.did = IF ok THEN did ELSE 0]
       IN IF ~ok
          THEN Go(w, [req EXCEPT !.pc = "done", !.res = "PermissionDenied"])
          ELSE Go(w, [req EXCEPT !.pc = "d_target"])
  /\ UNCHANGED <<db, next_id, tags, fs>>

\* destroy: DataManager's DataDBQuery().read(user_id, data_id)
Destroy_ReadTarget(w) ==
  /\ wk[w].pc = "d_target"
  /\ LET q == DataDBQueryReader(db, wk[w].uid, "unset", wk[w].did, <<>>)
     IN IF q.exc THEN Return(w, "Error")
        ELSE IF q.data = None THEN Return(w, "NotFound")
        ELSE Go(w, [wk[w] EXCEPT !.pc = "d_db"])
  /\ UNCHANGED <<db, next_id, tags, fs>>

\* the row read but not deleted
Destroy_Metadata_Keep(w) ==
  /\ wk[w].pc = "d_db"
  /\ LET data == RowById(db, wk[w].did)
     IN IF data = None
        THEN Return(w, "Error")
        ELSE Go(w, [wk[w] EXCEPT !.pc = "d_phys", !.data = data])
  /\ UNCHANGED <<db, next_id, tags, fs>>

\* destroy: root, name = DataDBQuery().destroy(data_id)
Destroy_Metadata(w) ==
  /\ wk[w].pc = "d_db"
  /\ LET data == RowById(db, wk[w].did)
     IN IF data = None
        THEN UNCHANGED <<db, tags>> /\ Return(w, "Error")
        ELSE /\ db' = DataDBQueryDestroyer(db, data)
             /\ \E cascade \in BOOLEAN :
                  tags' = DestroyerTags(tags, db, data, cascade)
             /\ Go(w, [wk[w] EXCEPT !.pc = "d_phys", !.data = data])
  /\ UNCHANGED <<next_id, fs>>

\* the destroy returning after the metadata step
Destroy_Storage_Skip(w) ==
  /\ wk[w].pc = "d_phys"
  /\ Return(w, "Ok")
  /\ UNCHANGED <<db, next_id, tags, fs>>

\* destroy: DataStorageQuery().destroy(raw_root)
Destroy_Storage(w) ==
  /\ wk[w].pc = "d_phys"
  /\ fs' = StorageDestroy(fs, RawRoot(wk[w].uid, wk[w].data.root, wk[w].data.name))
  /\ Return(w, "Ok")
  /\ UNCHANGED <<db, next_id, tags>>

\* ------------------------------------------------- user provisioning
\* UserManager.create_user: the operator must be a logged-in admin, the
\* storage size at least 1, and the Quota Guard refuses a size above half of
\* the configured capacity
UserManager_create_user(tok, storage_size) ==
  IF ~(tok.email \in Admins /\ tok.issue = "login") THEN "PermissionError"
  ELSE IF storage_size < 1 THEN "ValidationError"
  ELSE IF 2 * storage_size > Capacity THEN "UsageLimited"
  ELSE "created"

\* the except chain with UsageLimited left to "except Exception"
create_user_status_Generic(outcome) ==
  IF outcome = "PermissionError" THEN 401
  ELSE IF outcome \in {"ValidationError", "UserAlreadyExists", "TypeError"} THEN 400
  ELSE IF outcome = "created" THEN 201
  ELSE 500

\* UserView.create_user: the status of the response for each outcome of
\* UserManager().create_user
create_user_status(outcome) ==
  IF outcome = "UsageLimited" THEN 413
  ELSE IF outcome = "TypeError" THEN 400
  ELSE IF outcome = "PermissionError" THEN 401
  ELSE IF outcome = "ValidationError" THEN 400
  ELSE IF outcome = "UserAlreadyExists" THEN 400
  ELSE IF outcome = "created" THEN 201
  ELSE 500

\* POST /api/users: the request is answered in one step; size holds the
\* requested storage size and out the status of the response
UserView_create_user(w, sc) ==
  /\ MayStart(w, sc)
  /\ \E tok \in sc.tokens, storage_size \in StorageSizes :
       LET outcome == UserManager_create_user(tok, storage_size)
       IN Go(w, [Idle EXCEPT !.pc = "done", !.op = "create_user", !.tok = tok,
                             !.size = storage_size, !.res = outcome,
                             !.out = create_user_status(outcome)])
  /\ UNCHANGED <<db, next_id, tags, fs>>

\* ------------------------------------------------------- environment
\* the caller has received the response; the worker is free again
Respond(w) ==
  /\ wk[w].pc = "done"
  /\ Go(w, Idle)
  /\ UNCHANGED <<db, next_id, tags, fs>>

\* an object of the physical store is removed behind the engine's back
\* (os.remove / shutil.rmtree in the recovery tests)
OutOfBandRemove ==
  /\ AllIdle
  /\ \E o \in fs : fs' = StorageDestroy(fs, [u |-> o.u, p |-> o.p])
  /\ UNCHANGED <<db, next_id, tags, wk>>

\* the size column of a file row is changed behind the engine's back
\* (test_size_changed_illeagal_in_db)
CorruptSize ==
  /\ AllIdle
  /\ \E r \in db, v \in StoredSizes :
       /\ ~r.is_dir
       /\ v # r.size
       /\ db' = update_file_automatic(db, r.id, v)
  /\ UNCHANGED <<next_id, tags, fs, wk>>

\* ------------------------------------------------------ specification
Step(w, sc) ==
  \/ Create_ReadParent(w)
  \/ Create_ReadSlot(w)
  \/ Create_CleanStorage(w)
  \/ Create_WriteStorage(w)
  \/ Create_Commit(w)
  \/ Create_Insert(w, sc)
  \/ Create_Rollback(w, sc)
  \/ Read_ReadData(w)
  \/ Read_ProbeStorage(w)
  \/ Read_Purge(w)
  \/ Read_SyncSize(w)
  \/ Read_ListDir(w)
  \/ Update_ReadTarget(w)
  \/ Update_ReadData(w)
  \/ Update_RenameStorage(w)
  \/ Update_Purge(w)
  \/ Update_Commit(w)
  \/ Update_Rollback(w, sc)
  \/ Destroy_ReadTarget(w)
  \/ Destroy_Metadata(w)
  \/ Destroy_Storage(w)

Request(w, sc) ==
  \/ DataManager_create(w, sc)
  \/ DataManager_read(w, sc)
  \/ DataManager_update(w, sc)
  \/ DataManager_destroy(w, sc)

\* The fixture tree with tags: tag rows 1 and 2, one link from a row below
\* the top directory and one from the top directory, each to either tag.
TagSeeds ==
  {[tag |-> {1, 2},
    datatag |-> {[id |-> 1, datainfo_id |-> d, tag_id |-> t1],
                 [id |-> 2, datainfo_id |-> 1, tag_id |-> t2]}] :
     d \in {2, 3}, t1 \in {1, 2}, t2 \in {1, 2}}
\* the fixture tree after hi.txt was removed behind the engine's back
FixtureTreeStale ==
  [FixtureTree EXCEPT !.fs = {o \in FixtureTree.fs : o.is_dir}]
InitTags ==
  /\ \E s \in {FixtureTree, FixtureTreeStale} :
       db = s.db /\ fs = s.fs /\ next_id = s.next_id
  /\ tags \in TagSeeds
  /\ wk = [w \in Workers |-> Idle]
\* one request of the client on the tagged tree
NextTags == \E w \in Workers : Request(w, OwnTree) \/ Step(w, OwnTree)
SpecTags == InitTags /\ [][NextTags]_vars

\* requests served one at a time, the stores open to out-of-band changes
\* between two requests
Next ==
  \/ \E w \in Workers : Request(w, AnyRequest) \/ Step(w, AnyRequest) \/ Respond(w)
  \/ OutOfBandRemove
  \/ CorruptSize
Spec == Init /\ [][Next]_vars

\* the same on the tree of the tests' fixture, requests on the owner's tree
InitTree == InitFrom({FixtureTree})
NextTree ==
  \/ \E w \in Workers : Request(w, OwnTree) \/ Step(w, OwnTree) \/ Respond(w)
  \/ OutOfBandRemove
  \/ CorruptSize
SpecTree == InitTree /\ [][NextTree]_vars

\* A tree in which a directory name comes back further down:
\* a/b/a/a, the last one a file.
DeepTree ==
  LET l1 == DirPath(Slash, <<"a">>)
      l2 == DirPath(l1, <<"b">>)
      l3 == DirPath(l2, <<"a">>)
      d1 == CreatorInsert({}, 1, FixtureOwner, Slash, <<"a">>, TRUE, 0)
      d2 == CreatorInsert(d1, 2, FixtureOwner, l1, <<"b">>, TRUE, 0)
      d3 == CreatorInsert(d2, 3, FixtureOwner, l2, <<"a">>, TRUE, 0)
      d4 == CreatorInsert(d3, 4, FixtureOwner, l3, <<"a">>, FALSE, 1)
      f1 == StorageCreate({}, RawRoot(FixtureOwner, Slash, <<"a">>), TRUE, 0)
      f2 == StorageCreate(f1, RawRoot(FixtureOwner, l1, <<"b">>), TRUE, 0)
      f3 == StorageCreate(f2, RawRoot(FixtureOwner, l2, <<"a">>), TRUE, 0)
      f4 == StorageCreate(f3, RawRoot(FixtureOwner, l3, <<"a">>), FALSE, 1)
  IN [db |-> d4, fs |-> f4, next_id |-> 5]
\* the same after the file was removed behind the engine's back
DeepTreeStale ==
  [DeepTree EXCEPT !.fs = {o \in DeepTree.fs : o.is_dir}]
InitDeep == InitFrom({DeepTree, DeepTreeStale})
\* two requests on the deep tree, their steps interleaved
NextDeep == \E w \in Workers : Request(w, OwnDeepTree) \/ Step(w, OwnDeepTree)
SpecDeep == InitDeep /\ [][NextDeep]_vars

\* Two sibling directories "_" and "a" at the root, a file in "a".
WildTree ==
  LET da == DirPath(Slash, <<"a">>)
      d1 == CreatorInsert({}, 1, FixtureOwner, Slash, <<"_">>, TRUE, 0)
      d2 == CreatorInsert(d1, 2, FixtureOwner, Slash, <<"a">>, TRUE, 0)
      d3 == CreatorInsert(d2, 3, FixtureOwner, da, <<"a">>, FALSE, 1)
      f1 == StorageCreate({}, RawRoot(FixtureOwner, Slash, <<"_">>), TRUE, 0)
      f2 == StorageCreate(f1, RawRoot(FixtureOwner, Slash, <<"a">>), TRUE, 0)
      f3 == StorageCreate(f2, RawRoot(FixtureOwner, da, <<"a">>), FALSE, 1)
  IN [db |-> d3, fs |-> f3, next_id |-> 4]
\* the same after the file was removed behind the engine's back
WildTreeStale ==
  [WildTree EXCEPT !.fs = {o \in WildTree.fs : o.is_dir}]
InitWild == InitFrom({WildTree, WildTreeStale})
NextWild == \E w \in Workers : Request(w, OwnWildTree) \/ Step(w, OwnWildTree)
SpecWild == InitWild /\ [][NextWild]_vars

\* the client on its own tree, submitting any name
NextNames ==
  \/ \E w \in Workers : Request(w, AnyName) \/ Step(w, AnyName) \/ Respond(w)
  \/ OutOfBandRemove
  \/ CorruptSize
SpecNames == Init /\ [][NextNames]_vars

\* Store states two racing requests may find: nothing; a file; a directory
\* holding a file; a file row whose object was removed out of band.
SeedFile ==
  [db |-> CreatorInsert({}, 1, 2, Slash, <<"a">>, FALSE, 1),
   fs |-> StorageCreate({}, RawRoot(2, Slash, <<"a">>), FALSE, 1),
   next_id |-> 2]
SeedTree ==
  [db |-> CreatorInsert(CreatorInsert({}, 1, 2, Slash, <<"a">>, TRUE, 0),
                        2, 2, DirPath(Slash, <<"a">>), <<"b">>, FALSE, 1),
   fs |-> StorageCreate(StorageCreate({}, RawRoot(2, Slash, <<"a">>), TRUE, 0),
                        RawRoot(2, DirPath(Slash, <<"a">>), <<"b">>), FALSE, 1),
   next_id |-> 3]
SeedOrphanRow ==
  [SeedFile EXCEPT !.fs = StorageDestroy(SeedFile.fs, RawRoot(2, Slash, <<"a">>))]
ConcSeeds == {EmptyStores, SeedFile, SeedTree, SeedOrphanRow}

InitConc == InitFrom(ConcSeeds)

\* two requests, each served by its own worker, their store accesses
\* interleaved in any order
NextConc == \E w \in Workers : Request(w, Racing) \/ Step(w, Racing)
SpecConc == InitConc /\ [][NextConc]_vars

\* Requests of the admin and of the client, for either user, served in
\* parallel; they may also find a directory without entries.
RacingOwners ==
  [parallel |-> TRUE,
   tokens |-> {t \in Tokens : t.email \in Users /\ t.issue = "login"},
   user_ids |-> Users, names |-> Names, last_id |-> MaxId,
   undo_faults |-> FALSE]
SeedDir ==
  [db |-> CreatorInsert({}, 1, 2, Slash, <<"a">>, TRUE, 0),
   fs |-> StorageCreate({}, RawRoot(2, Slash, <<"a">>), TRUE, 0),
   next_id |-> 2]
InitOwners == InitFrom(ConcSeeds \cup {SeedDir})
NextOwners == \E w \in Workers : Request(w, RacingOwners) \/ Step(w, RacingOwners)
SpecOwners == InitOwners /\ [][NextOwners]_vars

\* two requests of the client, interleaved, with failing except branches
NextUndo == \E w \in Workers : Request(w, FailingUndo) \/ Step(w, FailingUndo)
SpecUndo == InitOwners /\ [][NextUndo]_vars

\* provisioning requests and their responses
NextUsers == \E w \in Workers : UserView_create_user(w, Provisioning) \/ Respond(w)
SpecUsers == Init /\ [][NextUsers]_vars

\* ================================================================ claims
Returned(w, op) == wk[w].pc = "done" /\ wk[w].op = op

\* rows of user u at (root, name), of either kind
SlotRows(d, u, root, name) ==
  {r \in d : r.user_id = u /\ r.root = root /\ r.name = name}

\* the physical path a create writes to
Target(w) == RawRoot(wk[w].uid, wk[w].dir_root, wk[w].name)

\* the create got as far as its target slot
AtSlot(w) == Returned(w, "create") /\ wk[w].dir_root # <<>>

\* C1: when a create returns, whatever step failed, its target slot holds both
\* a metadata row and a physical object or neither (given it held both or
\* neither when the create began).
C1_CreateBothOrNeither ==
  \A w \in Workers :
    (/\ AtSlot(w)
     /\ (SlotRows(wk[w].db0, wk[w].uid, wk[w].dir_root, wk[w].name) # {}
           <=> At(wk[w].fs0, Target(w)) # {}))
    => (SlotRows(db, wk[w].uid, wk[w].dir_root, wk[w].name) # {}
          <=> At(fs, Target(w)) # {})

\* C2: a create whose physical write succeeded and whose metadata commit
\* (insert, or size update of the row found) raised returns an error and
\* leaves no physical object at the target path (the destroy of the except
\* branch having run).
C2_NoOrphanAfterCommitFailure ==
  \A w \in Workers :
    (Returned(w, "create") /\ wk[w].exc = "db")
    => (wk[w].res # "Ok" /\ At(fs, Target(w)) = {})

\* a create of a new entry returned after its insert raised
C2_Witness ==
  \E w \in Workers :
    /\ Returned(w, "create") /\ wk[w].exc = "db" /\ wk[w].already = 0
    /\ wk[w].res = "StoreFailure"
    /\ At(fs, Target(w)) = {}

\* C3: no two rows of one owner share (parent_path, name, is_directory).
C3_UniqueSlot ==
  \A r \in db, q \in db :
    (/\ r.user_id = q.user_id /\ r.root = q.root
     /\ r.name = q.name /\ r.is_dir = q.is_dir) => r = q

\* the create inserted a new row
Inserted(w) == Returned(w, "create") /\ wk[w].res = "Ok" /\ wk[w].already = 0

\* C4: of two creates racing for one slot (owner, parent_path, name, kind) at
\* most one inserts a row, and the slot never holds two rows.
C4_OneInsertPerSlot ==
  \A w \in Workers, v \in Workers :
    (/\ w # v /\ AtSlot(w) /\ AtSlot(v)
     /\ wk[w].uid = wk[v].uid /\ wk[w].dir_root = wk[v].dir_root
     /\ wk[w].name = wk[v].name /\ wk[w].is_dir = wk[v].is_dir)
    => /\ ~(Inserted(w) /\ Inserted(v))
       /\ Cardinality({r \in SlotRows(db, wk[w].uid, wk[w].dir_root, wk[w].name) :
                         r.is_dir = wk[w].is_dir}) <= 1

\* C5: a read, rename or delete naming user B and the id of a row of another
\* user A returns NotFound and leaves A's rows and A's objects as they were.
C5_ForeignIdNotFound ==
  \A w \in Workers :
    (/\ wk[w].pc = "done" /\ wk[w].op \in {"read", "update", "destroy"}
     /\ \E r \in wk[w].db0 : r.id = wk[w].did /\ r.user_id # wk[w].uid)
    => /\ wk[w].res = "NotFound"
       /\ {r \in db : r.user_id # wk[w].uid}
            = {r \in wk[w].db0 : r.user_id # wk[w].uid}
       /\ {o \in fs : o.u # wk[w].uid} = {o \in wk[w].fs0 : o.u # wk[w].uid}

\* the row a read, rename or delete names, as the request found it
Row0(w) == RowById(wk[w].db0, wk[w].did)
\* ... and the physical path of that row in the tree of the user named
Path0(w) == RawRoot(wk[w].uid, Row0(w).root, Row0(w).name)
\* the request names a row of the user it names
OwnRow(w) == Row0(w) # None /\ Row0(w).user_id = wk[w].uid

\* C6: an admitted read, naming an existing user, of a row whose physical
\* object is gone returns NotFound and deletes the row; a read of an id that
\* has no row (as after that purge) returns NotFound.
C6_ReadPurgesStaleRow ==
  \A w \in Workers :
    (/\ Returned(w, "read") /\ Permitted(wk[w].tok, wk[w].uid)
     /\ wk[w].uid \in Users) =>
      /\ (OwnRow(w) /\ ~StorageRead(wk[w].fs0, Path0(w), Row0(w).is_dir))
           => (wk[w].res = "NotFound" /\ RowById(db, wk[w].did) = None)
      /\ (Row0(w) = None) => (wk[w].res = "NotFound" /\ db = wk[w].db0)

\* a read found the file of its row removed, and purged the row
C6_Witness ==
  \E w \in Workers :
    /\ Returned(w, "read") /\ OwnRow(w) /\ ~Row0(w).is_dir
    /\ ~StorageRead(wk[w].fs0, Path0(w), FALSE)
    /\ wk[w].res = "NotFound" /\ RowById(db, wk[w].did) = None

\* rows of the owner of directory row d below d
Descendants(dbx, d) ==
  {r \in dbx : r.user_id = d.user_id /\ HasPrefix(r.root, DirPath(d.root, d.name))}

\* C7: a read of a directory row whose physical directory is gone returns
\* NotFound and deletes the row and every row below it.
C7_ReadPurgesStaleDirectory ==
  \A w \in Workers :
    (/\ Returned(w, "read") /\ OwnRow(w) /\ Row0(w).is_dir
     /\ ~StorageRead(wk[w].fs0, Path0(w), TRUE))
    => /\ wk[w].res = "NotFound"
       /\ RowById(db, wk[w].did) = None
       /\ Descendants(db, Row0(w)) = {}

\* such a read of a directory that had two rows below it
C7_Witness ==
  \E w \in Workers :
    /\ Returned(w, "read") /\ OwnRow(w) /\ Row0(w).is_dir
    /\ ~StorageRead(wk[w].fs0, Path0(w), TRUE)
    /\ Cardinality(Descendants(wk[w].db0, Row0(w))) >= 2
    /\ Descendants(db, Row0(w)) = {}

\* C8: a read of a file row whose file exists returns the file's byte length,
\* leaves the row's size equal to it, and changes nothing when the stored
\* size already agreed.
C8_ReadReconcilesSize ==
  \A w \in Workers :
    (/\ Returned(w, "read") /\ OwnRow(w) /\ ~Row0(w).is_dir
     /\ StorageRead(wk[w].fs0, Path0(w), FALSE))
    => LET real_size == GetSize(wk[w].fs0, Path0(w))
       IN /\ wk[w].res = "Ok"
          /\ wk[w].out = real_size
          /\ db = (wk[w].db0 \ {Row0(w)}) \cup {[Row0(w) EXCEPT !.size = real_size]}
          /\ fs = wk[w].fs0

\* a read corrected a stored size that differed from the file's length
C8_Witness ==
  \E w \in Workers :
    /\ Returned(w, "read") /\ OwnRow(w) /\ ~Row0(w).is_dir
    /\ StorageRead(wk[w].fs0, Path0(w), FALSE)
    /\ Row0(w).size # GetSize(wk[w].fs0, Path0(w))
    /\ wk[w].out = GetSize(wk[w].fs0, Path0(w))

\* file rows of the user named at the slot a create targets
SlotFileRows(dbx, w) ==
  {r \in SlotRows(dbx, wk[w].uid, wk[w].dir_root, wk[w].name) : ~r.is_dir}

\* C9: a file create on a slot that holds one file row of the same owner
\* succeeds (no store fault injected), keeps that one row under its id and
\* sets its size to the length written.
C9_ReuploadKeepsOneRow ==
  \A w \in Workers :
    (/\ AtSlot(w) /\ ~wk[w].is_dir /\ wk[w].exc = "none"
     /\ Cardinality(SlotFileRows(wk[w].db0, w)) = 1)
    => /\ wk[w].res = "Ok"
       /\ SlotFileRows(db, w) =
            {[r EXCEPT !.size = wk[w].size] : r \in SlotFileRows(wk[w].db0, w)}

\* C10: the step that renames a directory row gives every row below it the
\* new prefix: no state shows some descendants moved and others not.
C10_RenameCascadeAtomic ==
  [][\A d \in db :
       (d.is_dir /\ RowById(db', d.id) # None /\ RowById(db', d.id).name # d.name)
       => \A r \in Descendants(db, d) :
            /\ RowById(db', r.id) # None
            /\ HasPrefix(RowById(db', r.id).root,
                         DirPath(d.root, RowById(db', d.id).name))]_vars

\* a rename of a directory with two rows below it returned, all of them moved
C10_Witness ==
  \E w \in Workers :
    /\ Returned(w, "update") /\ wk[w].res = "Ok" /\ OwnRow(w) /\ Row0(w).is_dir
    /\ Cardinality(Descendants(wk[w].db0, Row0(w))) >= 2
    /\ \A r \in Descendants(wk[w].db0, Row0(w)) :
         HasPrefix(RowById(db, r.id).root, DirPath(Row0(w).root, wk[w].name))

\* the physical path a rename gives the row it names
NewPath0(w) == RawRoot(wk[w].uid, Row0(w).root, wk[w].name)

\* C11: a rename whose metadata update fails after the physical rename
\* returns the error with the physical store and the metadata store as they
\* were before the call (the rename back of the except branch having run).
C11_RenameRollbackRestores ==
  \A w \in Workers :
    (Returned(w, "update") /\ wk[w].exc = "db")
    => (wk[w].res # "Ok" /\ db = wk[w].db0 /\ fs = wk[w].fs0)

\* a rename of a directory holding objects failed at the metadata commit
C11_Witness ==
  \E w \in Workers :
    /\ Returned(w, "update") /\ wk[w].exc = "db" /\ wk[w].res = "StoreFailure"
    /\ OwnRow(w) /\ Row0(w).is_dir /\ Below(wk[w].fs0, Path0(w)) # {}
    /\ fs = wk[w].fs0

PathOf(r) == RawRoot(r.user_id, r.root, r.name)

\* C14: at every point of a destroy of a row by its owner, and when the
\* destroy is abandoned between its two steps, every row still stored has the
\* physical object it had when the destroy began: the rows go first, an
\* object without a row is the only orphan a destroy leaves.
C14_DestroyMetadataFirst ==
  \A w \in Workers :
    (wk[w].op = "destroy" /\ wk[w].pc # "idle" /\ OwnRow(w))
    => \A r \in db :
         At(wk[w].fs0, PathOf(r)) # {} => At(fs, PathOf(r)) # {}

\* C15: after a successful destroy of a directory its row is gone, no row of
\* its owner has a parent_path starting with the directory's path, and no
\* physical object is left at or below the directory's physical path.
C15_DestroyDirectoryCascades ==
  \A w \in Workers :
    (/\ Returned(w, "destroy") /\ wk[w].res = "Ok"
     /\ OwnRow(w) /\ Row0(w).is_dir)
    => /\ RowById(db, wk[w].did) = None
       /\ Descendants(db, Row0(w)) = {}
       /\ At(fs, Path0(w)) \cup Below(fs, Path0(w)) = {}

\* a directory with two rows and two objects below it was destroyed
C15_Witness ==
  \E w \in Workers :
    /\ Returned(w, "destroy") /\ wk[w].res = "Ok"
    /\ OwnRow(w) /\ Row0(w).is_dir
    /\ Cardinality(Descendants(wk[w].db0, Row0(w))) >= 2
    /\ Cardinality(Below(wk[w].fs0, Path0(w))) >= 2
    /\ Descendants(db, Row0(w)) = {} /\ Below(fs, Path0(w)) = {}

\* C16: a destroy of a row whose physical object is already absent succeeds
\* and removes the row.
C16_DestroyToleratesAbsentObject ==
  \A w \in Workers :
    (Returned(w, "destroy") /\ OwnRow(w) /\ At(wk[w].fs0, Path0(w)) = {})
    => (wk[w].res = "Ok" /\ RowById(db, wk[w].did) = None)

\* such a destroy returned
C16_Witness ==
  \E w \in Workers :
    /\ Returned(w, "destroy") /\ OwnRow(w) /\ At(wk[w].fs0, Path0(w)) = {}
    /\ wk[w].res = "Ok" /\ RowById(db, wk[w].did) = None

\* the terms of the access rule
Authenticated(tok) == tok.email \in Users /\ tok.issue = "login"
IsAdmin(tok) == tok.email \in Admins
IsOwner(tok, ownerId) == tok.email = ownerId

\* C17: create, read, update and destroy pass the permission check exactly
\* when Authenticated AND (IsAdmin OR (NOT IsAdmin AND IsOwner)), and return
\* PermissionDenied in every other combination.
C17_PermissionRule ==
  \A w \in Workers :
    wk[w].pc = "done" =>
      (wk[w].res # "PermissionDenied"
         <=> /\ Authenticated(wk[w].tok)
             /\ \/ IsAdmin(wk[w].tok)
                \/ ~IsAdmin(wk[w].tok) /\ IsOwner(wk[w].tok, wk[w].uid))

\* an admin whose token is not a login token was denied a rename
C17_Witness ==
  \E w \in Workers :
    /\ Returned(w, "update") /\ wk[w].res = "PermissionDenied"
    /\ IsAdmin(wk[w].tok) /\ wk[w].tok.issue # "login"

\* C18: a request that fails the permission check returns PermissionDenied
\* in its first step, a step that reads and writes no row and no object.
C18_DeniedBeforeStoreAccess ==
  [][\A w \in Workers :
       (/\ wk[w].pc = "idle" /\ wk'[w].pc # "idle"
        /\ ~Permitted(wk'[w].tok, wk'[w].uid))
       => /\ wk'[w].pc = "done" /\ wk'[w].res = "PermissionDenied"
          /\ wk'[w].data = None /\ wk'[w].out = 0
          /\ db' = db /\ fs' = fs /\ next_id' = next_id]_vars

\* a destroy by an operator that resolves to no user was denied, rows stored
C18_Witness ==
  \E w \in Workers :
    /\ Returned(w, "destroy") /\ wk[w].res = "PermissionDenied"
    /\ wk[w].tok.email = NoOperator
    /\ db # {} /\ db = wk[w].db0 /\ fs = wk[w].fs0

\* C19: a non-admin operator naming another owner gets PermissionDenied and
\* nothing else, whatever the stores hold and whether or not the user named
\* exists.
C19_NonOwnerAlwaysDenied ==
  \A w \in Workers :
    (/\ wk[w].pc = "done" /\ wk[w].tok.email \in Users \ Admins
     /\ wk[w].uid # wk[w].tok.email)
    => /\ wk[w].res = "PermissionDenied"
       /\ wk[w].data = None /\ wk[w].out = 0
       /\ db = wk[w].db0 /\ fs = wk[w].fs0

\* the client was denied a read on the admin's tree, which holds a row
C19_Witness ==
  \E w \in Workers :
    /\ Returned(w, "read") /\ wk[w].tok.email \in Users \ Admins
    /\ wk[w].tok.issue = "login" /\ wk[w].uid \in Admins
    /\ \E r \in wk[w].db0 : r.user_id = wk[w].uid
    /\ wk[w].res = "PermissionDenied"

\* what read(info) of (ownerId, dataId) gives on stores dbx, fsx
ReadOutcome(dbx, fsx, ownerId, dataId) ==
  LET q == DataDBQueryReader(dbx, ownerId, "unset", dataId, <<>>)
      raw_root == RawRoot(ownerId, q.data.root, q.data.name)
      synced == sync_file_size(dbx, dataId, GetSize(fsx, raw_root))
      fail(res) == [res |-> res, data |-> None, out |-> 0, db |-> dbx, fs |-> fsx]
  IN IF ownerId \notin Users THEN fail("UserNotFound")
     ELSE IF q.exc THEN fail("Error")
     ELSE IF q.data = None THEN fail("NotFound")
     ELSE IF ~StorageRead(fsx, raw_root, q.data.is_dir)
     THEN [res |-> "NotFound", data |-> q.data, out |-> 0,
           db |-> DataDBQueryDestroyer(dbx, q.data), fs |-> fsx]
     ELSE IF q.data.is_dir
     THEN [res |-> "Ok", data |-> q.data,
           out |-> Cardinality(ListDir(fsx, raw_root)), db |-> dbx, fs |-> fsx]
     ELSE [res |-> "Ok", data |-> RowById(synced, dataId),
           out |-> GetSize(fsx, raw_root), db |-> synced, fs |-> fsx]

\* C20: the payload and the resulting stores of a permitted read(info) of
\* (ownerId, dataId) are determined by the stores, ownerId and dataId alone:
\* the owner and any admin get the same.
C20_ReadSameForOwnerAndAdmin ==
  \A w \in Workers :
    (Returned(w, "read") /\ Permitted(wk[w].tok, wk[w].uid))
    => [res |-> wk[w].res, data |-> wk[w].data, out |-> wk[w].out,
        db |-> db, fs |-> fs]
         = ReadOutcome(wk[w].db0, wk[w].fs0, wk[w].uid, wk[w].did)

\* the admin read a file of the client whose stored size was stale
C20_Witness ==
  \E w \in Workers :
    /\ Returned(w, "read") /\ wk[w].res = "Ok"
    /\ IsAdmin(wk[w].tok) /\ ~IsOwner(wk[w].tok, wk[w].uid)
    /\ OwnRow(w) /\ ~Row0(w).is_dir
    /\ Row0(w).size # wk[w].out

\* C21: a create whose parent id names a directory row of another owner
\* returns NotFound and creates nothing in either store (no store fault
\* injected).
C21_ForeignParentNotFound ==
  \A w \in Workers :
    (/\ Returned(w, "create") /\ Row0(w) # None /\ Row0(w).is_dir
     /\ Row0(w).user_id # wk[w].uid /\ wk[w].exc = "none")
    => (wk[w].res = "NotFound" /\ db = wk[w].db0 /\ fs = wk[w].fs0)

\* C22: a create whose non-zero parent id names no row, or names a file row,
\* returns NotFound and leaves both stores unchanged.
C22_MissingOrFileParentNotFound ==
  \A w \in Workers :
    (/\ Returned(w, "create") /\ wk[w].did # 0
     /\ (Row0(w) = None \/ ~Row0(w).is_dir))
    => (wk[w].res = "NotFound" /\ db = wk[w].db0 /\ fs = wk[w].fs0)

\* a create under the id of a file row returned NotFound
C22_Witness ==
  \E w \in Workers :
    /\ Returned(w, "create") /\ OwnRow(w) /\ ~Row0(w).is_dir
    /\ wk[w].res = "NotFound" /\ db = wk[w].db0 /\ fs = wk[w].fs0

\* the segments of a path, split at "/"
RECURSIVE Segments(_)
Segments(s) ==
  IF s = <<>> THEN << <<>> >>
  ELSE LET rest == Segments(Tail(s))
       IN IF Head(s) = "/" THEN << <<>> >> \o rest
          ELSE << <<Head(s)>> \o Head(rest) >> \o Tail(rest)

\* walking the segments from a directory depth levels below the owner root
\* steps above the owner root
RECURSIVE Climbs(_, _)
Climbs(segs, depth) ==
  IF segs = <<>> THEN FALSE
  ELSE IF Head(segs) = <<".", ".">>
  THEN depth = 0 \/ Climbs(Tail(segs), depth - 1)
  ELSE IF Head(segs) \in {<<>>, <<".">>} THEN Climbs(Tail(segs), depth)
  ELSE Climbs(Tail(segs), depth + 1)

\* {storage}/storage/{u}/root{p} stays inside {storage}/storage/{u}/root
InsideOwnerRoot(pp) == ~Climbs(Segments(pp.p), 0)

\* the physical paths the next step of worker w addresses
Addressed(w) ==
  IF wk[w].pc \in {"c_clean", "c_write", "c_rollback"} THEN {Target(w)}
  ELSE IF wk[w].pc \in {"r_probe", "r_sync", "r_list", "d_phys"}
  THEN {RawRoot(wk[w].uid, wk[w].data.root, wk[w].data.name)}
  ELSE IF wk[w].pc \in {"u_phys", "u_rollback"}
  THEN {RawRoot(wk[w].uid, wk[w].data.root, wk[w].data.name),
        RawRoot(wk[w].uid, wk[w].data.root, wk[w].name)}
  ELSE {}

\* C23: every physical path a request for owner O probes, writes, renames or
\* deletes is in O's tree and stays inside O's owner root, whatever name was
\* submitted.
C23_PathsInsideOwnerRoot ==
  \A w \in Workers :
    \A pp \in Addressed(w) : pp.u = wk[w].uid /\ InsideOwnerRoot(pp)

\* C24: a create whose name is empty or holds a forbidden character returns
\* InvalidName and leaves both stores as the request found them.
C24_InvalidNameNoChange ==
  \A w \in Workers :
    (AtSlot(w) /\ ~ValidName(wk[w].name))
    => (wk[w].res = "InvalidName" /\ db = wk[w].db0 /\ fs = wk[w].fs0)

\* the parent path a create names: "/" for parent id 0, else the path of the
\* directory row of that id
ParentPath0(w) ==
  IF wk[w].did = 0 THEN Slash ELSE DirPath(Row0(w).root, Row0(w).name)

\* a returned create of a valid (owner, parent, name) whose slot held neither
\* a row of the owner nor a physical object, with no store fault injected
FreshCreate(w) ==
  /\ Returned(w, "create") /\ Permitted(wk[w].tok, wk[w].uid)
  /\ wk[w].uid \in Users /\ wk[w].exc = "none"
  /\ (wk[w].did = 0 \/ (OwnRow(w) /\ Row0(w).is_dir))
  /\ ValidName(wk[w].name)
  /\ SlotRows(wk[w].db0, wk[w].uid, ParentPath0(w), wk[w].name) = {}
  /\ LET pp == RawRoot(wk[w].uid, ParentPath0(w), wk[w].name)
     IN At(wk[w].fs0, pp) \cup Below(wk[w].fs0, pp) = {}

\* C25: a create of a valid (owner, parent, name) on a free slot succeeds, and
\* read(info) of the id it returns gives the name, parent path and kind of
\* the input, with the size written for a file and 0 for a directory.
C25_CreateReadRoundTrip ==
  \A w \in Workers :
    FreshCreate(w) =>
      /\ wk[w].res = "Ok"
      /\ LET ro == ReadOutcome(db, fs, wk[w].uid, wk[w].out)
         IN /\ ro.res = "Ok"
            /\ ro.data.name = wk[w].name
            /\ ro.data.root = ParentPath0(w)
            /\ ro.data.is_dir = wk[w].is_dir
            /\ ro.out = IF wk[w].is_dir THEN 0 ELSE wk[w].size

\* C26: a directory create on a slot of the owner that holds a row, and a
\* file create on a slot that holds a directory row, return AlreadyExists and
\* leave both stores unchanged.
C26_OccupiedSlotAlreadyExists ==
  \A w \in Workers :
    (/\ AtSlot(w)
     /\ \E r \in SlotRows(wk[w].db0, wk[w].uid, wk[w].dir_root, wk[w].name) :
          wk[w].is_dir \/ r.is_dir)
    => (wk[w].res = "AlreadyExists" /\ db = wk[w].db0 /\ fs = wk[w].fs0)

\* C27: read(info) of a directory reports as size the number of entries
\* directly inside the physical directory when it is read, whatever size the
\* row stores.
C27_DirectorySizeIsLiveCount ==
  \A w \in Workers :
    (/\ Returned(w, "read") /\ wk[w].res = "Ok"
     /\ Row0(w) # None /\ Row0(w).is_dir)
    => wk[w].out = Cardinality(ListDir(fs, Path0(w)))

\* a directory holding one entry was read: 1 reported, 0 stored in the row
C27_Witness ==
  \E w \in Workers :
    /\ Returned(w, "read") /\ wk[w].res = "Ok"
    /\ OwnRow(w) /\ Row0(w).is_dir
    /\ wk[w].out = 1 /\ Row0(w).size = 0
    /\ Cardinality(ListDir(fs, Path0(w))) = 1

\* the directory rows of the same owner whose path is the parent_path of r
ParentRows(d, r) ==
  {q \in d : q.is_dir /\ q.user_id = r.user_id /\ DirPath(q.root, q.name) = r.root}

\* the rows reached from r by following the parent relation at most n times
RECURSIVE AncestorRows(_, _, _)
AncestorRows(d, r, n) ==
  IF n = 0 THEN {}
  ELSE LET ps == ParentRows(d, r)
       IN ps \cup UNION {AncestorRows(d, q, n - 1) : q \in ps}

\* C28: in every reachable state each row's parent_path is "/" or the path of
\* an existing directory row of the same owner, and no row is its own ancestor.
C28_ParentExistsNoCycle ==
  \A r \in db :
    /\ r.root = Slash \/ ParentRows(db, r) # {}
    /\ r \notin AncestorRows(db, r, Cardinality(db))

\* the rows of a metadata store without their ids
StripIds(d) ==
  {[user_id |-> r.user_id, root |-> r.root, name |-> r.name,
    is_dir |-> r.is_dir, size |-> r.size] : r \in d}

\* an id no row of d carries
FreshId(d) == CHOOSE i \in 1..(Cardinality(d) + 1) : \A r \in d : r.id # i

\* DataFileCRUDManager.create at the root, run alone and without a store
\* fault on the stores st: the stores it leaves and its result
UploadAtRoot(st, user_id, filename, size) ==
  LET q == DataDBQueryReader(st.db, user_id, "unset", 0, <<Slash, filename>>)
      file_root == RawRoot(user_id, Slash, filename)
      cleaned == IF StorageRead(st.fs, file_root, TRUE)
                    \/ StorageRead(st.fs, file_root, FALSE)
                 THEN StorageDestroy(st.fs, file_root) ELSE st.fs
      written == StorageCreate(cleaned, file_root, FALSE, size)
  IN IF q.exc THEN [db |-> st.db, fs |-> st.fs, res |-> "Error"]
     ELSE IF q.data.id # 0 /\ q.data.is_dir
     THEN [db |-> st.db, fs |-> st.fs, res |-> "AlreadyExists"]
     ELSE IF ~ValidName(filename)
     THEN [db |-> st.db, fs |-> cleaned, res |-> "InvalidName"]
     ELSE IF q.data.id # 0
     THEN [db |-> update_file_automatic(st.db, q.data.id, size),
           fs |-> written, res |-> "Ok"]
     ELSE IF CreatorCollides(st.db, user_id, Slash, filename, FALSE)
     THEN [db |-> st.db, fs |-> StorageDestroy(written, file_root),
           res |-> "AlreadyExists"]
     ELSE [db |-> CreatorInsert(st.db, FreshId(st.db), user_id, Slash,
                                filename, FALSE, size),
           fs |-> written, res |-> "Ok"]

\* worker w returned from an upload at the root that met no store fault
RootUpload(w) ==
  /\ Returned(w, "create") /\ ~wk[w].is_dir /\ wk[w].did = 0
  /\ wk[w].dir_root = Slash /\ wk[w].exc = "none"

\* C29: two uploads at the root for different owners, both started on the
\* same stores, give under every interleaving of their steps the results and
\* the final stores of running one after the other, in either order.
C29_DisjointUploadsCommute ==
  \A w1, w2 \in Workers :
    (/\ w1 # w2 /\ RootUpload(w1) /\ RootUpload(w2)
     /\ wk[w1].uid # wk[w2].uid
     /\ wk[w1].db0 = wk[w2].db0 /\ wk[w1].fs0 = wk[w2].fs0)
    => LET st == [db |-> wk[w1].db0, fs |-> wk[w1].fs0]
           a == UploadAtRoot(st, wk[w1].uid, wk[w1].name, wk[w1].size)
           ab == UploadAtRoot(a, wk[w2].uid, wk[w2].name, wk[w2].size)
           b == UploadAtRoot(st, wk[w2].uid, wk[w2].name, wk[w2].size)
           ba == UploadAtRoot(b, wk[w1].uid, wk[w1].name, wk[w1].size)
       IN /\ StripIds(db) = StripIds(ab.db) /\ fs = ab.fs
          /\ StripIds(db) = StripIds(ba.db) /\ fs = ba.fs
          /\ wk[w1].res = a.res /\ wk[w1].res = ba.res
          /\ wk[w2].res = b.res /\ wk[w2].res = ab.res

\* w1 returned from a destroy of a row of the user it names, and w2 returned
\* from a destroy of the same id, or from a read or rename of that id that
\* found the physical object absent
RacingRemovals(w1, w2) ==
  /\ w1 # w2 /\ Returned(w1, "destroy") /\ OwnRow(w1)
  /\ wk[w2].pc = "done" /\ wk[w2].op \in {"destroy", "read", "update"}
  /\ wk[w2].did = wk[w1].did /\ wk[w2].uid = wk[w1].uid
  /\ (wk[w2].op # "destroy" => At(wk[w2].fs0, Path0(w1)) = {})

\* C30: a destroy racing with another destroy, or with the purge of a read or
\* a rename, of the same id: each call returns success or NotFound, and
\* afterwards the row and its physical object are absent.
C30_RacingRemovalsEndClean ==
  \A w1, w2 \in Workers :
    RacingRemovals(w1, w2) =>
      /\ wk[w1].res \in {"Ok", "NotFound"}
      /\ wk[w2].res \in {"Ok", "NotFound"}
      /\ RowById(db, wk[w1].did) = None
      /\ At(fs, Path0(w1)) = {}

\* C31: a read by id with an is_dir filter, True or False, gives no row when
\* the row of that id is of the other kind.
C31_KindFilterExcludes ==
  \A r \in db : \A f \in {"dir", "file"} :
    (r.is_dir # (f = "dir"))
    => DataDBQueryReader(db, r.user_id, f, r.id, <<>>).data = None

\* C32: no create and no rename returns success once its metadata commit has
\* raised, whether the except branch then undid the physical step or raised
\* itself.
C32_NoSuccessAfterCommitFailure ==
  \A w \in Workers :
    (/\ wk[w].pc = "done" /\ wk[w].op \in {"create", "update"}
     /\ wk[w].exc \in {"db", "rollback"})
    => wk[w].res # "Ok"

\* a create returned after its insert and then its compensating destroy raised:
\* the written object is still there
C32_Witness ==
  \E w \in Workers :
    /\ Returned(w, "create") /\ wk[w].exc = "rollback"
    /\ wk[w].res = "StoreFailure" /\ At(fs, Target(w)) # {}

\* C33: provisioning a user with a storage size above half of the configured
\* capacity, asked by a logged-in admin, fails with UsageLimited, answered
\* with status 413, for every such size.
C33_OverHalfCapacityRefused ==
  \A w \in Workers :
    (/\ Returned(w, "create_user")
     /\ Authenticated(wk[w].tok) /\ IsAdmin(wk[w].tok)
     /\ 2 * wk[w].size > Capacity)
    => (wk[w].res = "UsageLimited" /\ wk[w].out = 413)

\* the admin asked for the largest size and for the smallest size above half
\* of the capacity; both were refused
C33_Witness ==
  \E w1, w2 \in Workers :
    /\ Returned(w1, "create_user") /\ IsAdmin(wk[w1].tok)
    /\ wk[w1].size = MaxRequest /\ wk[w1].out = 413
    /\ Returned(w2, "create_user") /\ IsAdmin(wk[w2].tok)
    /\ 2 * wk[w2].size > Capacity /\ 2 * (wk[w2].size - 1) <= Capacity
    /\ wk[w2].out = 413

\* C34: a successful rename of directory D from old to new gives each row
\* below D the parent_path parent_path(D) + new + "/" followed by what came
\* after parent_path(D) + old + "/" in its former parent_path, unchanged
\* (no other request running meanwhile).
C34_RenameRewritesPrefixOnly ==
  \A w \in Workers :
    (/\ Returned(w, "update") /\ wk[w].res = "Ok"
     /\ OwnRow(w) /\ Row0(w).is_dir
     /\ \A v \in Workers \ {w} : wk[v].pc = "idle")
    => LET old == DirPath(Row0(w).root, Row0(w).name)
           new == DirPath(Row0(w).root, wk[w].name)
       IN \A r \in Descendants(wk[w].db0, Row0(w)) :
            /\ RowById(db, r.id) # None
            /\ RowById(db, r.id).root
                 = new \o SubSeq(r.root, Len(old) + 1, Len(r.root))

\* C35: a successful destroy of directory D of owner O (no other request
\* running meanwhile) removes D's row and the rows of O whose parent_path
\* literally starts with parent_path(D) + name(D) + "/", and nothing else.
C35_DestroyRemovesOnlySubtree ==
  \A w \in Workers :
    (/\ Returned(w, "destroy") /\ wk[w].res = "Ok"
     /\ OwnRow(w) /\ Row0(w).is_dir
     /\ \A v \in Workers \ {w} : wk[v].pc = "idle")
    => db = wk[w].db0 \ ({Row0(w)} \cup Descendants(wk[w].db0, Row0(w)))

\* C36: a create by owner B on a slot B does not hold (no store fault
\* injected) succeeds with a new row owned by B even when another owner holds
\* a row at the same (parent_path, name), and leaves that row as it was.
C36_OwnersSlotsIndependent ==
  \A w \in Workers :
    (/\ Returned(w, "create") /\ wk[w].did = 0 /\ wk[w].dir_root = Slash
     /\ wk[w].exc = "none" /\ ValidName(wk[w].name)
     /\ SlotRows(wk[w].db0, wk[w].uid, Slash, wk[w].name) = {}
     /\ \E a \in wk[w].db0 :
          a.user_id # wk[w].uid /\ a.root = Slash /\ a.name = wk[w].name)
    => /\ wk[w].res = "Ok"
       /\ wk[w].data.user_id = wk[w].uid
       /\ RowById(wk[w].db0, wk[w].data.id) = None
       /\ wk[w].db0 \subseteq db

\* C37: of two creates racing for one free slot, when one inserted its row
\* and returned success and the other, refused by the creator's existence
\* check, returned AlreadyExists after its except branch ran, a physical
\* object is still at the slot.
C37_LoserRollbackKeepsWinnerObject ==
  \A w \in Workers, v \in Workers :
    (/\ w # v /\ AtSlot(w) /\ AtSlot(v)
     /\ wk[w].uid = wk[v].uid /\ wk[w].dir_root = wk[v].dir_root
     /\ wk[w].name = wk[v].name
     /\ Inserted(w)
     /\ wk[v].res = "AlreadyExists" /\ wk[v].exc = "db")
    => At(fs, Target(w)) # {}

\* w returned from a read of a row of the user it names whose object was in
\* place, and v returned from a rename of the same row, or from an upload onto
\* its slot
ReadRacesWrite(w, v) ==
  /\ w # v /\ Returned(w, "read") /\ OwnRow(w)
  /\ StorageRead(wk[w].fs0, Path0(w), Row0(w).is_dir)
  /\ wk[v].pc = "done" /\ wk[v].uid = wk[w].uid
  /\ \/ wk[v].op = "update" /\ wk[v].did = wk[w].did
     \/ /\ AtSlot(v) /\ ~wk[v].is_dir /\ ~Row0(w).is_dir
        /\ Target(v) = Path0(w)

\* C38: a read racing with a rename or a re-upload of the same row does not
\* purge it: when both have returned and a physical object is at the entry's
\* old or new path, the row is still stored.
C38_ReadDoesNotPurgeLiveEntry ==
  \A w \in Workers, v \in Workers :
    ReadRacesWrite(w, v) =>
      LET paths == {Path0(w)} \cup
                   (IF wk[v].op = "update"
                    THEN {RawRoot(wk[w].uid, Row0(w).root, wk[v].name)} ELSE {})
      IN (\E pp \in paths : At(fs, pp) # {}) => RowById(db, wk[w].did) # None

\* links of the tag tables t whose row is among the ids
LinksOf(t, ids) == {j \in t.datatag : j.datainfo_id \in ids}
\* the link and its tag row are both stored
Attached(t, j) == j \in t.datatag /\ j.tag_id \in t.tag
\* ids of the rows a request of w removed
GoneIds(w) == {r.id : r \in wk[w].db0 \ db}

\* C39: after a destroy that ran alone on a row of the user it names, no tag
\* attachment of a removed row is left (its link or its tag row is gone), and
\* every attachment of a remaining row whose tag no removed row was linked to
\* is still stored, link and tag row.
C39_DestroyCleansOnlyOwnTags ==
  \A w \in Workers :
    (/\ Returned(w, "destroy") /\ wk[w].res = "Ok" /\ OwnRow(w)
     /\ \A v \in Workers \ {w} : wk[v].pc = "idle")
    => LET t0 == wk[w].tags0
           dead == LinksOf(t0, GoneIds(w))
       IN /\ \A j \in dead : ~Attached(tags, j)
          /\ \A j \in t0.datatag \ dead :
               (Attached(t0, j) /\ j.tag_id \notin {k.tag_id : k \in dead})
                 => Attached(tags, j)

====
